---- MODULE Spec2Model ----
(***************************************************************************)
(* Model of the Kraken order-execution engine of                           *)
(* src/algo_trading/kraken_LB1m_AVAX.py: the sizing helpers and            *)
(* KrakenClient.place_maker_then_taker, run against an exchange that can   *)
(* accept or reject a request, fail at the transport, and fill or expire a *)
(* resting order on its own.                                               *)
(*                                                                         *)
(* Numbers.  Decimal prices and volumes are integers counted in the        *)
(* smallest unit the book / the caller uses; the tick size and the lot     *)
(* step are powers of ten of that unit (Decimal("1").scaleb(-n)).  A       *)
(* quotient that is not an integer (costmin / price, ask * (1 + slip)) is  *)
(* kept as numerator and denominator until the code truncates it.          *)
(* taker_slip_pct is counted in thousandths (0.001 is 1).                  *)
(***************************************************************************)
EXTENDS Integers, Sequences, FiniteSets, TLC

\* ------------------------------------------------------------------ bounds
MaxTickExp == 1     \* tick_size ranges over 10^0 .. 10^MaxTickExp price units
MinBid == 8         \* the best bid ranges over MinBid .. MaxBid price units
MaxBid == 12
MaxSpread == 2      \* best ask - best bid ranges over 1 .. MaxSpread
MaxLotExp == 1      \* the lot step ranges over 10^0 .. 10^MaxLotExp volume units
MaxVolume == 30     \* a desired volume ranges over 0 .. MaxVolume

None == "None"

Sides == {"buy", "sell"}
Volumes == {3, 27}
MakerTtls == {2, 5}
MakerOffsets == {1, 2}
SlipThousandths == {1, 100}

TickSizes == {10 ^ k : k \in 0 .. MaxTickExp}

\* PairRules as _fetch_pair_rules builds them: the lot step is
\* 10^-lot_decimals, ordermin is 0 when absent or non-positive.  costmin 0
\* stands for a costmin of None as well: the one place that reads it,
\* "if self.rules.costmin and self.rules.costmin > 0", treats both alike.
Sizings ==
    { [lot_step |-> 1, ordermin |-> 0, costmin |-> 0],
      [lot_step |-> 10, ordermin |-> 5, costmin |-> 240] }

PairRules ==
    { [tick_size |-> t, lot_step |-> z.lot_step, ordermin |-> z.ordermin,
       costmin |-> z.costmin] : t \in TickSizes, z \in Sizings }

\* The top of the book the Ticker endpoint can return.
Books ==
    { [bid |-> b, ask |-> b + s] : b \in MinBid .. MaxBid, s \in 1 .. MaxSpread }

VARIABLES
    rules,              \* self.rules
    pc,                 \* position in place_maker_then_taker
    side, volume, maker_ttl_s, maker_offset_ticks, taker_slip_pct,  \* arguments
    book,               \* local book
    maker_price, vol,   \* locals of the maker leg
    maker_resp, txid,   \* response of the maker AddOrder, its order id
    status,             \* local status, "unset" until the query is parsed
    taker_price, vol2,  \* locals of the taker leg
    taker_resp,         \* response of the taker AddOrder
    ret,                \* the value returned to the caller
    exc,                \* the exception that left the invocation, if any
    makerState,         \* the maker order on the exchange
    orders,             \* the AddOrder requests the exchange received, in order
    calls,              \* every exchange call and sleep of the invocation, in order
    \* a helper applied to drawn inputs
    applied, given, answer,
    \* CandleBreakoutStrategy, KrakenClient.candles, OHLCSocketClient and
    \* TradingContext of kraken_LB1m_ARB.py
    qty,                \* strategy.qty
    position_size, prev_high, prev_low, last_candle_time,
    candles,            \* client.candles, a deque of at most 3 candles
    is_subscribed,      \* ws_client.is_subscribed
    ctx,                \* position of TradingContext.run
    now,                \* time.time(), whole seconds
    feedPeriod,         \* the period the feed is forming (its interval_begin)
    placed,             \* the AddOrder requests of the latest on_new_candle call
    avail,              \* the balance the latest on_new_candle call was told
    evals,              \* the feed periods of the candles evaluated so far
    lastCall,           \* how the latest pass of the strategy loop ended
    conn,               \* position of OHLCSocketClient.run
    lastEnd,            \* how the latest connection attempt or session ended
    handled,            \* the header of the latest message received
    fresh,              \* the last candle was stored in the current session
    fills,              \* the strategy's orders that filled on the exchange
    \* TradingContext.run of kraken_LB1m_AVAX.py
    loop,               \* position of the polling loop
    errors,             \* the "Error in loop" lines printed so far
    \* KrakenClient._fetch_pair_rules
    altname_guess,      \* the symbol to resolve
    rpc,                \* position in _fetch_pair_rules
    fetched,            \* the AssetPairs responses received, in order
    resolved            \* the (key, pairinfo) chosen

locals ==
    <<book, maker_price, vol, maker_resp, txid, status, taker_price, vol2,
      taker_resp, ret, exc>>
args == <<side, volume, maker_ttl_s, maker_offset_ticks, taker_slip_pct>>
engineVars == <<rules, pc, args, locals, makerState, orders, calls>>
pureVars == <<applied, given, answer>>
strategyVars == <<qty, position_size, prev_high, prev_low, last_candle_time>>
streamVars == <<candles, is_subscribed, now, feedPeriod>>
connVars == <<conn, lastEnd, handled, fresh>>
resolveVars == <<altname_guess, rpc, fetched, resolved>>
auxVars == <<fills, loop, errors>>
otherVars == <<connVars, resolveVars>>
stratVars ==
    <<strategyVars, streamVars, ctx, placed, avail, evals, lastCall, otherVars>>
vars == <<engineVars, pureVars, stratVars, auxVars>>

\* ------------------------------------------------------- Decimal arithmetic

\* Decimal's // and quantize(..., rounding=ROUND_DOWN) both truncate toward
\* zero.
TruncDiv(a, b) == IF a >= 0 THEN a \div b ELSE -((-a) \div b)

\* quantize with ROUND_FLOOR (toward negative infinity).
QuantizeDown_Floor(num, den, tick) == (num \div (den * tick)) * tick

\* (num / den).quantize(tick, rounding=ROUND_DOWN)
QuantizeDown(num, den, tick) == TruncDiv(num, den * tick) * tick

\* ------------------------------------------------------------ sizing helpers

\* _round_volume on the quotient num / den
RoundVolumeOf(r, num, den) == TruncDiv(num, den * r.lot_step) * r.lot_step

\* _round_volume that rounds to the nearest step.
round_volume_Nearest(r, v) ==
    ((v + r.lot_step \div 2) \div r.lot_step) * r.lot_step

round_volume(r, v) == RoundVolumeOf(r, v, 1)

\* _min_volume_for_price that reads ordermin only.
min_volume_for_price_OrderminOnly(r, price) == round_volume(r, r.ordermin)

min_volume_for_price(r, price) ==
    LET hasOrdermin == r.ordermin > 0
        hasCostmin == r.costmin > 0 /\ price > 0
    IN  IF ~hasOrdermin /\ ~hasCostmin THEN round_volume(r, 0)
        ELSE IF hasOrdermin /\ ~hasCostmin THEN round_volume(r, r.ordermin)
        ELSE IF ~hasOrdermin THEN RoundVolumeOf(r, r.costmin, price)
        ELSE IF r.ordermin * price >= r.costmin
             THEN round_volume(r, r.ordermin)
             ELSE RoundVolumeOf(r, r.costmin, price)

\* _coerce_volume that returns the raised volume without rounding it.
coerce_volume_NoRound(r, v, price) ==
    LET min_vol == min_volume_for_price(r, price)
    IN  IF min_vol > 0 /\ v < min_vol THEN min_vol ELSE v

\* _coerce_volume that adds a step to clear the floor.
coerce_volume_AboveFloor(r, v, price) ==
    LET min_vol == min_volume_for_price(r, price)
    IN  round_volume(r, IF min_vol > 0 /\ v < min_vol THEN min_vol ELSE v)
        + r.lot_step

coerce_volume(r, v, price) ==
    LET min_vol == min_volume_for_price(r, price)
    IN  round_volume(r, IF min_vol > 0 /\ v < min_vol THEN min_vol ELSE v)

\* --------------------------------------------- place_maker_then_taker, pure

\* MakerPrice with the sell offset applied toward the book.
MakerPrice_SellUnderAsk(s, b, tick, offset) ==
    IF s = "buy"
    THEN QuantizeDown(b.bid - tick * offset, 1, tick)
    ELSE QuantizeDown(b.ask - tick * offset, 1, tick)

\* Maker price: offset ticks under the best bid (buy) or over the best ask
\* (sell), quantized with ROUND_DOWN.
MakerPrice(s, b, tick, offset) ==
    IF s = "buy"
    THEN QuantizeDown(b.bid - tick * offset, 1, tick)
    ELSE QuantizeDown(b.ask + tick * offset, 1, tick)

\* Taker price: the touch moved by taker_slip_pct (thousandths), quantized
\* with ROUND_DOWN on both sides.
TakerPrice(s, b, tick, slip) ==
    IF s = "buy"
    THEN QuantizeDown(b.ask * (1000 + slip), 1000, tick)
    ELSE QuantizeDown(b.bid * (1000 - slip), 1000, tick)

\* MakerFields without the post-only flag.
MakerFields_NoPost(s, v, p, ttl) ==
    [ordertype |-> "limit", type |-> s, volume |-> v, price |-> p,
     oflags |-> None, timeinforce |-> "GTD",
     expiretm |-> "+" \o ToString(ttl)]

\* The fields of the two AddOrder requests.  volume and price are sent as
\* the normalized decimal text of the number, which the exchange reads back
\* as the same number; a field the request does not carry is None.
MakerFields(s, v, p, ttl) ==
    [ordertype |-> "limit", type |-> s, volume |-> v, price |-> p,
     oflags |-> "post", timeinforce |-> "GTD",
     expiretm |-> "+" \o ToString(ttl)]

TakerFields(s, v, p) ==
    [ordertype |-> "limit", type |-> s, volume |-> v, price |-> p,
     oflags |-> None, timeinforce |-> None, expiretm |-> None]

\* An AddOrder response: an order id, or an error payload.
Accepted(id) == [error |-> FALSE, txid |-> id]
Rejected == [error |-> TRUE, txid |-> None]
\* The value of maker_resp, taker_resp and of the return value before they
\* are assigned.
NoResponse == [error |-> FALSE, txid |-> "unassigned"]
\* The value of book before the first Ticker response.
NoBook == [bid |-> 0, ask |-> 0]

\* txid = None unless the maker response has no error and carries a txid.
TxidOf(resp) == IF ~resp.error /\ resp.txid # None THEN resp.txid ELSE None

\* After the sleep: the status is queried only when there is a txid.
AfterSleep(t) == IF t # None THEN "query" ELSE "refresh_book"

\* A QueryOrders response: the order's status, or a payload without a usable
\* result (an error payload, an unknown txid).
Reported(st) == [result |-> TRUE, status |-> st]
Unusable == [result |-> FALSE, status |-> None]

\* status = q["result"][txid]["status"], None when that lookup raises.
StatusOf(q) == IF q.result THEN q.status ELSE None

\* AfterQuery that goes on to the taker leg without cancelling an open order.
AfterQuery_NoCancel(st) ==
    IF st \in {"closed", "filled"} THEN "return_maker" ELSE "refresh_book"

\* AfterQuery whose status lookup is not guarded: a payload without a
\* result raises KeyError.
AfterQuery_KeyError(st) ==
    IF st = None THEN "raised"
    ELSE IF st \in {"closed", "filled"} THEN "return_maker"
    ELSE IF st = "open" THEN "cancel"
    ELSE "refresh_book"

\* AfterQuery that knows "closed" only.
AfterQuery_FilledUnhandled(st) ==
    IF st = "closed" THEN "return_maker"
    ELSE IF st = "open" THEN "cancel"
    ELSE "refresh_book"

\* What follows the parsed status: return the maker response when filled,
\* cancel when still open, otherwise go on to the taker leg.
AfterQuery(st) ==
    IF st \in {"closed", "filled"} THEN "return_maker"
    ELSE IF st = "open" THEN "cancel"
    ELSE "refresh_book"

\* cancel_order's response is discarded.
AfterCancel(resp) == "refresh_book"

\* AfterTaker that goes round again when the taker order is rejected.
AfterTaker_RetryOnReject(resp) ==
    IF resp.error THEN "refresh_book" ELSE "returned"

\* The taker response is returned whatever it is.
AfterTaker(resp) == "returned"

\* -------------------------------------------------------------- exchange

\* The status names a QueryOrders response uses for an order in state st.
StatusNames(st) == IF st = "closed" THEN {"closed", "filled"} ELSE {st}

Cancelled(st) == IF st = "open" THEN "canceled" ELSE st

Call(op, leg, out) == [op |-> op, leg |-> leg, out |-> out]

\* ------------------------------------------------------------------ Init

InitEngine ==
    /\ rules \in PairRules
    /\ pc = "idle"
    /\ side = None /\ volume = 0 /\ maker_ttl_s = 0
    /\ maker_offset_ticks = 0 /\ taker_slip_pct = 0
    /\ book = NoBook /\ maker_price = 0 /\ vol = 0
    /\ maker_resp = NoResponse /\ txid = None /\ status = "unassigned"
    /\ taker_price = 0 /\ vol2 = 0 /\ taker_resp = NoResponse
    /\ ret = NoResponse /\ exc = None
    /\ makerState = "none"
    /\ orders = <<>>
    /\ calls = <<>>

\* No helper applied yet.
NoInput ==
    [r |-> [tick_size |-> 1, lot_step |-> 1, ordermin |-> 0, costmin |-> 0],
     v |-> 0, price |-> 0, side |-> None, book |-> NoBook, offset |-> 0,
     slip |-> 0, close |-> 0]

PureIdle == applied = "none" /\ given = NoInput /\ answer = 0

\* last_candle_time, prev_high and prev_low of None.
NoTime == -1
NoLevel == -1
\* avail when the call did not ask for the balance.
NotAsked == -1

\* handled before any message
NoMessage ==
    [channel |-> "none", method |-> "none", success |-> FALSE,
     error |-> FALSE, n |-> 0]

\* CandleBreakoutStrategy.__init__ with qty = q, an empty client.candles,
\* OHLCSocketClient.__init__, and TradingContext.run not yet started.
StrategyConstructed(q) ==
    /\ qty = q
    /\ position_size = 0
    /\ prev_high = NoLevel /\ prev_low = NoLevel
    /\ last_candle_time = NoTime
    /\ candles = <<>>
    /\ is_subscribed = FALSE
    /\ ctx = "startup"
    /\ now = 0
    /\ feedPeriod = 0
    /\ placed = <<>>
    /\ avail = NotAsked
    /\ evals = <<>>
    /\ lastCall = "none"
    /\ conn = "connecting"
    /\ lastEnd = "none"
    /\ handled = NoMessage
    /\ fresh = FALSE
    /\ fills = {}
    /\ loop = "sleep"
    /\ errors = 0

\* resolved before an entry is chosen
NoEntry == [key |-> "none", altname |-> "none", wsname |-> ""]

\* _fetch_pair_rules not yet called.
ResolveIdle ==
    /\ altname_guess = "none"
    /\ rpc = "idle"
    /\ fetched = <<>>
    /\ resolved = NoEntry

Init == InitEngine /\ PureIdle /\ StrategyConstructed(0) /\ ResolveIdle

\* ------------------------------------------------- place_maker_then_taker

\* The caller invokes place_maker_then_taker(side, volume, maker_ttl_s,
\* maker_offset_ticks, taker_slip_pct).
Invoke ==
    /\ pc = "idle"
    /\ side' \in Sides
    /\ volume' \in Volumes
    /\ maker_ttl_s' \in MakerTtls
    /\ maker_offset_ticks' \in MakerOffsets
    /\ taker_slip_pct' \in SlipThousandths
    /\ pc' = "get_book"
    /\ UNCHANGED <<rules, locals, makerState, orders, calls>>
    /\ UNCHANGED <<pureVars, auxVars, stratVars>>

\* An exception leaves the invocation: nothing in place_maker_then_taker
\* catches what get_best_bid_ask, _http_post, query_order or cancel_order
\* raise.
Raise(e) ==
    /\ exc' = e
    /\ pc' = "raised"

\* book = self.get_best_bid_ask(); maker_price; vol = _coerce_volume(...)
GetBook ==
    /\ pc = "get_book"
    /\ \E b \in Books :
          /\ book' = b
          /\ maker_price' =
                 MakerPrice(side, b, rules.tick_size, maker_offset_ticks)
          /\ vol' = coerce_volume(rules, volume, maker_price')
    /\ calls' = Append(calls, Call("Ticker", None, "ok"))
    /\ pc' = "add_maker"
    /\ UNCHANGED <<rules, args, maker_resp, txid, status, taker_price, vol2,
                   taker_resp, ret, exc, makerState, orders>>
    /\ UNCHANGED <<pureVars, auxVars, stratVars>>

\* get_best_bid_ask raises: the transport fails (URLError) or the Ticker
\* payload carries an error (ValueError).
GetBookFails ==
    /\ pc = "get_book"
    /\ \E o \in {"raised", "error"} :
          /\ calls' = Append(calls, Call("Ticker", None, o))
          /\ Raise(IF o = "raised" THEN "URLError" ELSE "ValueError")
    /\ UNCHANGED <<rules, args, book, maker_price, vol, maker_resp, txid,
                   status, taker_price, vol2, taker_resp, ret, makerState,
                   orders>>
    /\ UNCHANGED <<pureVars, auxVars, stratVars>>

\* maker_resp = _http_post(ADD_ORDER_PATH, maker_fields); txid
SubmitMaker ==
    /\ pc = "add_maker"
    /\ orders' = Append(orders,
          [leg |-> "maker",
           fields |-> MakerFields(side, vol, maker_price, maker_ttl_s)])
    /\ \/ /\ maker_resp' = Accepted("T1")
          /\ makerState' = "open"
          /\ calls' = Append(calls, Call("AddOrder", "maker", "ok"))
       \/ /\ maker_resp' = Rejected
          /\ makerState' = makerState
          /\ calls' = Append(calls, Call("AddOrder", "maker", "error"))
    /\ txid' = TxidOf(maker_resp')
    /\ pc' = "sleep"
    /\ UNCHANGED <<rules, args, book, maker_price, vol, status, taker_price,
                   vol2, taker_resp, ret, exc>>
    /\ UNCHANGED <<pureVars, auxVars, stratVars>>

\* The maker _http_post raises; the request may or may not have reached the
\* exchange.
SubmitMakerFails ==
    /\ pc = "add_maker"
    /\ orders' = Append(orders,
          [leg |-> "maker",
           fields |-> MakerFields(side, vol, maker_price, maker_ttl_s)])
    /\ calls' = Append(calls, Call("AddOrder", "maker", "raised"))
    /\ makerState' \in {makerState, "open"}
    /\ Raise("URLError")
    /\ UNCHANGED <<rules, args, book, maker_price, vol, maker_resp, txid,
                   status, taker_price, vol2, taker_resp, ret>>
    /\ UNCHANGED <<pureVars, auxVars, stratVars>>

\* time.sleep(maker_ttl_s + 0.3), then "if txid:"
Sleep ==
    /\ pc = "sleep"
    /\ calls' = Append(calls, Call("sleep", None, "ok"))
    /\ pc' = AfterSleep(txid)
    /\ UNCHANGED <<rules, args, locals, makerState, orders>>
    /\ UNCHANGED <<pureVars, auxVars, stratVars>>

\* q = self.query_order(txid); status; return maker_resp when filled.
\* The exchange reports the order's state, or answers without a usable
\* result.
QueryOrder ==
    /\ pc = "query"
    /\ \E q \in {Reported(n) : n \in StatusNames(makerState)} \cup {Unusable} :
          LET st == StatusOf(q)
              nxt == AfterQuery(st)
          IN  /\ status' = st
              /\ calls' = Append(calls,
                    Call("QueryOrders", None,
                         IF q.result THEN "ok" ELSE "error"))
              /\ pc' = IF nxt = "return_maker" THEN "returned" ELSE nxt
              /\ ret' = IF nxt = "return_maker" THEN maker_resp ELSE ret
              /\ exc' = IF nxt = "raised" THEN "KeyError" ELSE exc
    /\ UNCHANGED <<rules, args, book, maker_price, vol, maker_resp, txid,
                   taker_price, vol2, taker_resp, makerState, orders>>
    /\ UNCHANGED <<pureVars, auxVars, stratVars>>

\* query_order's _http_post raises.
QueryFails ==
    /\ pc = "query"
    /\ calls' = Append(calls, Call("QueryOrders", None, "raised"))
    /\ Raise("URLError")
    /\ UNCHANGED <<rules, args, book, maker_price, vol, maker_resp, txid,
                   status, taker_price, vol2, taker_resp, ret, makerState,
                   orders>>
    /\ UNCHANGED <<pureVars, auxVars, stratVars>>

\* self.cancel_order(txid): the exchange cancels an open order, leaves any
\* other one as it is, or answers with an error payload and cancels nothing.
CancelOrder ==
    /\ pc = "cancel"
    /\ \E resp \in {"ok", "error"} :
          /\ makerState' =
                IF resp = "ok" THEN Cancelled(makerState) ELSE makerState
          /\ calls' = Append(calls, Call("CancelOrder", None, resp))
          /\ pc' = AfterCancel(resp)
    /\ UNCHANGED <<rules, args, locals, orders>>
    /\ UNCHANGED <<pureVars, auxVars, stratVars>>

\* cancel_order's _http_post raises; the request may or may not have reached
\* the exchange.
CancelFails ==
    /\ pc = "cancel"
    /\ calls' = Append(calls, Call("CancelOrder", None, "raised"))
    /\ makerState' \in {makerState, Cancelled(makerState)}
    /\ Raise("URLError")
    /\ UNCHANGED <<rules, args, book, maker_price, vol, maker_resp, txid,
                   status, taker_price, vol2, taker_resp, ret, orders>>
    /\ UNCHANGED <<pureVars, auxVars, stratVars>>

\* book = self.get_best_bid_ask() (refresh); taker_price; vol2
RefreshBook ==
    /\ pc = "refresh_book"
    /\ \E b \in Books :
          /\ book' = b
          /\ taker_price' = TakerPrice(side, b, rules.tick_size, taker_slip_pct)
          /\ vol2' = coerce_volume(rules, volume, taker_price')
    /\ calls' = Append(calls, Call("Ticker", None, "ok"))
    /\ pc' = "add_taker"
    /\ UNCHANGED <<rules, args, maker_price, vol, maker_resp, txid, status,
                   taker_resp, ret, exc, makerState, orders>>
    /\ UNCHANGED <<pureVars, auxVars, stratVars>>

RefreshBookFails ==
    /\ pc = "refresh_book"
    /\ \E o \in {"raised", "error"} :
          /\ calls' = Append(calls, Call("Ticker", None, o))
          /\ Raise(IF o = "raised" THEN "URLError" ELSE "ValueError")
    /\ UNCHANGED <<rules, args, book, maker_price, vol, maker_resp, txid,
                   status, taker_price, vol2, taker_resp, ret, makerState,
                   orders>>
    /\ UNCHANGED <<pureVars, auxVars, stratVars>>

\* taker_resp = _http_post(ADD_ORDER_PATH, taker_fields); return taker_resp
SubmitTaker ==
    /\ pc = "add_taker"
    /\ orders' = Append(orders,
          [leg |-> "taker", fields |-> TakerFields(side, vol2, taker_price)])
    /\ \E resp \in {Accepted("T2"), Rejected} :
          /\ taker_resp' = resp
          /\ calls' = Append(calls,
                Call("AddOrder", "taker", IF resp.error THEN "error" ELSE "ok"))
          /\ pc' = AfterTaker(resp)
          /\ ret' = IF AfterTaker(resp) = "returned" THEN resp ELSE ret
    /\ UNCHANGED <<rules, args, book, maker_price, vol, maker_resp, txid,
                   status, taker_price, vol2, exc, makerState>>
    /\ UNCHANGED <<pureVars, auxVars, stratVars>>

SubmitTakerFails ==
    /\ pc = "add_taker"
    /\ orders' = Append(orders,
          [leg |-> "taker", fields |-> TakerFields(side, vol2, taker_price)])
    /\ calls' = Append(calls, Call("AddOrder", "taker", "raised"))
    /\ Raise("URLError")
    /\ UNCHANGED <<rules, args, book, maker_price, vol, maker_resp, txid,
                   status, taker_price, vol2, taker_resp, ret, makerState>>
    /\ UNCHANGED <<pureVars, auxVars, stratVars>>

\* ------------------------------------------------- the exchange, on its own

\* The resting maker order is filled by a counterparty.
ExchangeFill ==
    /\ makerState = "open"
    /\ makerState' = "closed"
    /\ UNCHANGED <<rules, pc, args, locals, orders, calls>>
    /\ UNCHANGED <<pureVars, auxVars, stratVars>>

\* The resting maker order reaches its expiretm.
ExchangeExpire ==
    /\ makerState = "open"
    /\ makerState' = "expired"
    /\ UNCHANGED <<rules, pc, args, locals, orders, calls>>
    /\ UNCHANGED <<pureVars, auxVars, stratVars>>

Next ==
    \/ Invoke
    \/ GetBook \/ GetBookFails
    \/ SubmitMaker \/ SubmitMakerFails
    \/ Sleep
    \/ QueryOrder \/ QueryFails
    \/ CancelOrder \/ CancelFails
    \/ RefreshBook \/ RefreshBookFails
    \/ SubmitTaker \/ SubmitTakerFails
    \/ ExchangeFill \/ ExchangeExpire

Spec == Init /\ [][Next]_vars

\* ------------------------------------------------------------ the claims

Last(q) == q[Len(q)]
MakerCalls ==
    {i \in DOMAIN calls : calls[i].op = "AddOrder" /\ calls[i].leg = "maker"}
TakerCalls ==
    {i \in DOMAIN calls : calls[i].op = "AddOrder" /\ calls[i].leg = "taker"}
CallsOf(op) == {i \in DOMAIN calls : calls[i].op = op}
Ended == pc \in {"returned", "raised"}

\* The invocation returned and its status query reported "open".
ReturnedAfterOpen == pc = "returned" /\ status = "open"

\* C1 (as claimed): when the status query reports the maker order as open,
\* exactly three post-only maker orders are submitted, then exactly one
\* taker order, with a cancel for every maker order.
C1_ThreeMakerAttempts ==
    ReturnedAfterOpen =>
        /\ Cardinality(MakerCalls) = 3
        /\ Cardinality(TakerCalls) = 1
        /\ Cardinality(CallsOf("CancelOrder")) = 3

\* C1 (amended): when the status query reports the maker order as open,
\* exactly one post-only maker order is submitted, followed by exactly one
\* taker order, and the cancel of the maker order is issued after its status
\* was queried and before the taker order is submitted.
C1_OneMakerThenTaker ==
    ReturnedAfterOpen =>
        /\ Len(calls) = 7
        /\ <<calls[1].op, calls[2].op, calls[3].op, calls[4].op, calls[5].op,
             calls[6].op, calls[7].op>>
             = <<"Ticker", "AddOrder", "sleep", "QueryOrders", "CancelOrder",
                 "Ticker", "AddOrder">>
        /\ calls[2].leg = "maker" /\ calls[7].leg = "taker"
        /\ Len(orders) = 2
        /\ orders[1].leg = "maker" /\ orders[1].fields.oflags = "post"
        /\ orders[2].leg = "taker"

C1_Witness ==
    /\ ReturnedAfterOpen
    /\ Len(orders) = 2
    /\ ret = taker_resp
    /\ makerState = "canceled"

\* C2: whenever the invocation submits a further order, the maker order it
\* submitted before is no longer open on the exchange.
C2_NoOverlappingOrder ==
    [][(Len(orders) >= 1 /\ Len(orders') > Len(orders))
          => makerState # "open"]_vars

\* C3: a transport failure in a best-bid/ask fetch, an order submission, a
\* status query or a cancel call is never propagated out of the invocation.
C3_NoExceptionEscapes == exc # "URLError"

\* The exchange calls of the maker leg that were answered with an error
\* payload.
ErrorPayloads ==
    {i \in DOMAIN calls :
        /\ calls[i].out = "error"
        /\ \/ calls[i].op \in {"QueryOrders", "CancelOrder"}
           \/ calls[i].op = "AddOrder" /\ calls[i].leg = "maker"}

\* C4: an error payload for the maker submission, the status query or the
\* cancel call never ends the invocation: the engine goes on toward the
\* taker leg, and an error is returned only as the taker's response.
C4_ErrorPayloadsLeadToTaker ==
    /\ \A i \in ErrorPayloads :
          /\ Ended => i < Len(calls)
          /\ ~Ended => pc \in {"sleep", "refresh_book", "add_taker"}
          /\ pc = "returned" => Last(calls).leg = "taker" /\ ret = taker_resp
    /\ (pc = "returned" /\ ret.error) =>
          /\ Last(calls).op = "AddOrder" /\ Last(calls).leg = "taker"
          /\ Last(calls).out = "error"
          /\ ret = taker_resp

C4_Witness ==
    /\ pc = "returned"
    /\ \E i \in ErrorPayloads : calls[i].op = "CancelOrder"
    /\ ret.error

\* C5: at most one taker order is submitted, its submission is the last
\* exchange call of the invocation, and its response is what is returned,
\* accepted or rejected.
C5_TakerIsTerminal ==
    /\ Cardinality(TakerCalls) <= 1
    /\ \A i \in TakerCalls :
          /\ i = Len(calls)
          /\ Ended
          /\ orders[Len(orders)].leg = "taker"
          /\ pc = "returned" =>
                /\ ret = taker_resp
                /\ ret.error = (calls[i].out = "error")

C5_Witness ==
    /\ pc = "returned"
    /\ TakerCalls # {}
    /\ taker_resp.error
    /\ ret = taker_resp

\* C6: when the status query reports the maker order closed/filled, the
\* maker response is returned and neither a cancel nor a taker order is
\* submitted; a taker order is submitted only when it was not so reported.
C6_FilledMakerReturns ==
    /\ status \in {"closed", "filled"} =>
          /\ pc = "returned"
          /\ ret = maker_resp
          /\ CallsOf("CancelOrder") = {}
          /\ TakerCalls = {}
          /\ Last(calls).op = "QueryOrders"
    /\ TakerCalls # {} => status \notin {"closed", "filled"}

C6_Witness ==
    /\ status = "filled"
    /\ pc = "returned"
    /\ ret = Accepted("T1")

\* C7: when the maker submission returns an error, no wait, no status query
\* and no cancel occurs before the taker submission.
C7_NoWaitAfterMakerError ==
    maker_resp.error =>
        \A i \in DOMAIN calls :
            calls[i].op \notin {"sleep", "QueryOrders", "CancelOrder"}

\* C8: every maker-leg order carries the post-only flag and a good-till-date
\* expiry equal to maker_ttl_s; the taker-leg order carries neither.
C8_MakerPostOnlyGtd ==
    \A i \in DOMAIN orders :
        LET f == orders[i].fields
        IN  /\ orders[i].leg = "maker" =>
                 /\ f.oflags = "post"
                 /\ f.timeinforce = "GTD"
                 /\ f.expiretm = "+" \o ToString(maker_ttl_s)
            /\ orders[i].leg = "taker" =>
                 /\ f.oflags = None
                 /\ f.timeinforce = None
                 /\ f.expiretm = None

C8_Witness ==
    /\ Len(orders) = 2
    /\ orders[1].leg = "maker" /\ orders[2].leg = "taker"
    /\ orders[1].fields.expiretm = "+2"

\* The taker price has been computed from the book now held.
TakerPriced == pc = "add_taker" \/ TakerCalls # {}

\* C9: the quantized taker price is never beyond the slippage cap: for a
\* buy it is <= bestAsk * (1 + slip), for a sell >= bestBid * (1 - slip).
C9_TakerWithinSlippageCap ==
    TakerPriced =>
        IF side = "buy"
        THEN taker_price * 1000 <= book.ask * (1000 + taker_slip_pct)
        ELSE taker_price * 1000 >= book.bid * (1000 - taker_slip_pct)

\* The maker price has been computed from the book now held.
MakerPriced == pc \in {"add_maker", "sleep", "query", "cancel", "refresh_book"}

\* C10: the maker price is on the tick grid, within one tick of
\* bestBid - offset * tick (buy) or bestAsk + offset * tick (sell), and
\* strictly passive: below bestBid for a buy, above bestAsk for a sell.
C10_MakerPricePassive ==
    MakerPriced =>
        LET t == rules.tick_size
            target == IF side = "buy"
                      THEN book.bid - maker_offset_ticks * t
                      ELSE book.ask + maker_offset_ticks * t
        IN  /\ maker_price % t = 0
            /\ maker_price - target < t /\ target - maker_price < t
            /\ side = "buy" => maker_price < book.bid
            /\ side = "sell" => maker_price > book.ask

C10_Witness ==
    /\ pc = "add_maker"
    /\ side = "sell"
    /\ book.ask % rules.tick_size # 0
    /\ maker_offset_ticks = 1
    /\ maker_price = book.ask - (book.ask % rules.tick_size) + rules.tick_size

\* ------------------------------------------- kraken_LB1m_ARB.py, prices

\* buy_price quantized from the close itself, without the buffer.
EntryPrice_AtClose(close, buffer, tick) == QuantizeDown(close, 1, tick)

\* buy_price = (close * (1 - buffer)).quantize(tick, ROUND_DOWN), buffer in
\* thousandths
EntryPrice(close, buffer, tick) ==
    QuantizeDown(close * (1000 - buffer), 1000, tick)

\* sell_price = (close * (1 + buffer)).quantize(tick, ROUND_DOWN)
ExitPrice(close, buffer, tick) ==
    QuantizeDown(close * (1000 + buffer), 1000, tick)

\* a retry priced at the quote itself
RetryPrice_AtQuote(s, b, tick) ==
    IF s = "buy"
    THEN QuantizeDown(b.bid, 1, tick)
    ELSE QuantizeDown(b.ask, 1, tick)

\* The price of a retry: bid - tick for a buy, ask + tick for a sell.
RetryPrice(s, b, tick) ==
    IF s = "buy"
    THEN QuantizeDown(b.bid - tick, 1, tick)
    ELSE QuantizeDown(b.ask + tick, 1, tick)

\* buffer_pct = Decimal("0.02"), in thousandths
BufferThousandths == 20

\* ------------------------------------- the helpers applied to drawn inputs

LotSteps == {10 ^ k : k \in 0 .. MaxLotExp}
OrderMins == {0, 5, 10, 12}
CostMins == {0, 123, 240}
SizerPrices == {0, 7, 10, 12}
Closes == {9, 10, 11, 107}

SizerRules ==
    { [tick_size |-> 1, lot_step |-> z, ordermin |-> m, costmin |-> c] :
        z \in LotSteps, m \in OrderMins, c \in CostMins }

TickRules ==
    { [tick_size |-> t, lot_step |-> 1, ordermin |-> 0, costmin |-> 0] :
        t \in TickSizes }

ApplyRoundVolume ==
    \E r \in SizerRules, v \in 0 .. MaxVolume :
        /\ applied = "none"
        /\ applied' = "round_volume"
        /\ given' = [NoInput EXCEPT !.r = r, !.v = v]
        /\ answer' = round_volume(r, v)
        /\ UNCHANGED <<engineVars, stratVars, auxVars>>

ApplyMinVolume ==
    \E r \in SizerRules, p \in SizerPrices :
        /\ applied = "none"
        /\ applied' = "min_volume_for_price"
        /\ given' = [NoInput EXCEPT !.r = r, !.price = p]
        /\ answer' = min_volume_for_price(r, p)
        /\ UNCHANGED <<engineVars, stratVars, auxVars>>

ApplyCoerceVolume ==
    \E r \in SizerRules, v \in 0 .. MaxVolume, p \in SizerPrices :
        /\ applied = "none"
        /\ applied' = "coerce_volume"
        /\ given' = [NoInput EXCEPT !.r = r, !.v = v, !.price = p]
        /\ answer' = coerce_volume(r, v, p)
        /\ UNCHANGED <<engineVars, stratVars, auxVars>>

ApplyMakerPrice ==
    \E r \in TickRules, s \in Sides, b \in Books, k \in MakerOffsets :
        /\ applied = "none"
        /\ applied' = "MakerPrice"
        /\ given' = [NoInput EXCEPT !.r = r, !.side = s, !.book = b,
                                    !.offset = k]
        /\ answer' = MakerPrice(s, b, r.tick_size, k)
        /\ UNCHANGED <<engineVars, stratVars, auxVars>>

ApplyTakerPrice ==
    \E r \in TickRules, s \in Sides, b \in Books, x \in SlipThousandths :
        /\ applied = "none"
        /\ applied' = "TakerPrice"
        /\ given' = [NoInput EXCEPT !.r = r, !.side = s, !.book = b,
                                    !.slip = x]
        /\ answer' = TakerPrice(s, b, r.tick_size, x)
        /\ UNCHANGED <<engineVars, stratVars, auxVars>>

ApplyStrategyPrice ==
    \E r \in TickRules, s \in Sides, c \in Closes :
        /\ applied = "none"
        /\ applied' = "StrategyPrice"
        /\ given' = [NoInput EXCEPT !.r = r, !.side = s, !.close = c]
        /\ answer' = IF s = "buy"
                     THEN EntryPrice(c, BufferThousandths, r.tick_size)
                     ELSE ExitPrice(c, BufferThousandths, r.tick_size)
        /\ UNCHANGED <<engineVars, stratVars, auxVars>>

ApplyRetryPrice ==
    \E r \in TickRules, s \in Sides, b \in Books :
        /\ applied = "none"
        /\ applied' = "RetryPrice"
        /\ given' = [NoInput EXCEPT !.r = r, !.side = s, !.book = b]
        /\ answer' = RetryPrice(s, b, r.tick_size)
        /\ UNCHANGED <<engineVars, stratVars, auxVars>>

NextPure ==
    \/ ApplyRoundVolume \/ ApplyMinVolume \/ ApplyCoerceVolume
    \/ ApplyMakerPrice \/ ApplyTakerPrice
    \/ ApplyStrategyPrice \/ ApplyRetryPrice

SpecPure == Init /\ [][NextPure]_vars

\* ------------------------------------------------- the claims, C11 .. C15

\* The floor max(minOrderVolume, minNotional / price) over the constraints
\* that are defined, zero when none is, as the quotient num / den.
VolumeFloor(r, price) ==
    IF r.costmin > 0 /\ price > 0 /\ r.costmin > r.ordermin * price
    THEN [num |-> r.costmin, den |-> price]
    ELSE [num |-> r.ordermin, den |-> 1]

\* max(v, num / den) as a quotient
MaxWith(v, f) == IF v * f.den >= f.num THEN [num |-> v, den |-> 1] ELSE f

\* x is the largest multiple of step that is <= num / den.
LargestMultipleBelow(x, step, f) ==
    /\ x % step = 0
    /\ x * f.den <= f.num
    /\ f.num < (x + step) * f.den

OnStep(f, step) == f.num % (f.den * step) = 0

\* C11: _coerce_volume returns roundToLotStep(max(desired,
\* minimumVolumeFor(price))); when desired is below an ordermin that is a
\* lot-step multiple and there is no costmin, it returns ordermin.
C11_CoerceIsRoundOfMax ==
    applied = "coerce_volume" =>
        LET r == given.r
            v == given.v
            m == min_volume_for_price(r, given.price)
        IN  /\ answer = round_volume(r, IF v >= m THEN v ELSE m)
            /\ LargestMultipleBelow(answer, r.lot_step,
                                    MaxWith(v, VolumeFloor(r, given.price)))
            /\ (r.costmin = 0 /\ r.ordermin % r.lot_step = 0
                  /\ v < r.ordermin) => answer = r.ordermin

C11_Witness ==
    /\ applied = "coerce_volume"
    /\ given.r.ordermin = 10 /\ given.r.costmin = 0 /\ given.r.lot_step = 1
    /\ given.v = 3
    /\ answer = 10

\* C12: for v >= 0 _round_volume returns the largest multiple of the lot
\* step that is <= v; it never rounds up.
C12_RoundVolumeDown ==
    applied = "round_volume" =>
        /\ answer <= given.v
        /\ answer % given.r.lot_step = 0
        /\ given.v - answer < given.r.lot_step

C12_Witness ==
    /\ applied = "round_volume"
    /\ given.r.lot_step = 10
    /\ given.v = 27
    /\ answer = 20

C14_MinVolumeUnrounded ==
    applied = "min_volume_for_price" =>
        LET f == VolumeFloor(given.r, given.price)
        IN  answer * f.den = f.num

\* C14 (amended): _min_volume_for_price returns the maximum of the defined
\* constraints rounded down to the lot step, zero when none is defined.
C14_MinVolumeRounded ==
    applied = "min_volume_for_price" =>
        LET f == VolumeFloor(given.r, given.price)
        IN  /\ LargestMultipleBelow(answer, given.r.lot_step, f)
            /\ (given.r.ordermin = 0 /\ (given.r.costmin = 0 \/ given.price = 0))
                  => answer = 0

C14_Witness ==
    /\ applied = "min_volume_for_price"
    /\ given.r.costmin = 123 /\ given.r.ordermin = 0
    /\ given.r.lot_step = 10 /\ given.price = 10
    /\ answer = 10

\* The unquantized target price of the price computed, as a quotient.
PriceApplied ==
    applied \in {"MakerPrice", "TakerPrice", "StrategyPrice", "RetryPrice"}

Target ==
    LET t == given.r.tick_size
        buy == given.side = "buy"
        b == given.book
    IN  IF applied = "MakerPrice"
        THEN [num |-> IF buy THEN b.bid - t * given.offset
                             ELSE b.ask + t * given.offset, den |-> 1]
        ELSE IF applied = "TakerPrice"
        THEN [num |-> IF buy THEN b.ask * (1000 + given.slip)
                             ELSE b.bid * (1000 - given.slip), den |-> 1000]
        ELSE IF applied = "StrategyPrice"
        THEN [num |-> IF buy THEN given.close * (1000 - BufferThousandths)
                             ELSE given.close * (1000 + BufferThousandths),
              den |-> 1000]
        ELSE [num |-> IF buy THEN b.bid - t ELSE b.ask + t, den |-> 1]

\* C15 (as claimed): every submitted price p' is the target p rounded down
\* to the tick grid: p' mod tick = 0, p' <= p and p - p' < tick.
C15_PriceRoundedDown ==
    PriceApplied =>
        /\ answer % given.r.tick_size = 0
        /\ answer * Target.den <= Target.num
        /\ Target.num - answer * Target.den < given.r.tick_size * Target.den

\* C15 (amended): every submitted price is the target truncated toward zero
\* to the tick grid, for buy and sell alike: on the grid, less than a tick
\* from the target, at or below a target >= 0 and at or above a target < 0.
C15_PriceTruncated ==
    PriceApplied =>
        LET t == given.r.tick_size
        IN  /\ answer % t = 0
            /\ Target.num - answer * Target.den < t * Target.den
            /\ answer * Target.den - Target.num < t * Target.den
            /\ Target.num >= 0 => answer * Target.den <= Target.num
            /\ Target.num < 0 =>
                  answer * Target.den >= Target.num /\ answer <= 0

C15_Witness ==
    /\ applied = "MakerPrice"
    /\ given.side = "buy"
    /\ Target.num < 0
    /\ answer * Target.den > Target.num

\* ------------------------------- kraken_LB1m_ARB.py: stream and strategy

MaxNow == 2         \* time.time() ranges over 0 .. MaxNow seconds
MaxMsgLen == 2      \* an ohlc message carries 1 .. MaxMsgLen candles

\* deque(maxlen=3)
CandleBufferLen == 3
\* while attempts < 3
MaxAttempts == 3
\* expire_s=5
ExpireS == 5

Qtys == {3, 20}
Balances == {0, 7}
StratBooks == {b \in Books : b.bid \in {MinBid, MaxBid} /\ b.ask = b.bid + 1}

\* high, low and close of a candle the feed delivers
CandleShapes ==
    { [high |-> 10, low |-> 10, close |-> 10],
      [high |-> 12, low |-> 11, close |-> 12],
      [high |-> 9, low |-> 8, close |-> 8] }

Messages == UNION { [1 .. n -> CandleShapes] : n \in 1 .. MaxMsgLen }

\* deque.pop() of a non-empty deque
Front(q) == SubSeq(q, 1, Len(q) - 1)

\* deque.append with maxlen
AppendBounded(q, c) ==
    IF Len(q) = CandleBufferLen THEN Append(Tail(q), c) ELSE Append(q, c)

\* update_candles seen between the pop of the old last slot and the append
\* of the new one.
update_candles_Torn(q, msg, t, begin) ==
    IF msg = <<>> THEN q
    ELSE IF Len(q) > 0 THEN SubSeq(q, 1, Len(q) - 1)
    ELSE <<[high |-> Head(msg).high, low |-> Head(msg).low,
            close |-> Head(msg).close, time |-> t, interval_begin |-> begin]>>

\* update_candles that stores the first entry of the message only.
update_candles_FirstEntry(q, msg, t, begin) ==
    IF msg = <<>> THEN q
    ELSE Append(IF Len(q) > 0 THEN SubSeq(q, 1, Len(q) - 1) ELSE q,
                [high |-> Head(msg).high, low |-> Head(msg).low,
                 close |-> Head(msg).close, time |-> t,
                 interval_begin |-> begin])

\* update_candles: every entry, stamped with the wall clock t, replaces the
\* last element of the buffer; begin is the entry's interval_begin, which
\* the code does not read.
RECURSIVE update_candles(_, _, _, _)
update_candles(q, msg, t, begin) ==
    IF msg = <<>> THEN q
    ELSE LET candle_obj == [high |-> Head(msg).high, low |-> Head(msg).low,
                            close |-> Head(msg).close, time |-> t,
                            interval_begin |-> begin]
             popped == IF Len(q) > 0 THEN Front(q) ELSE q
         IN  update_candles(AppendBounded(popped, candle_obj), Tail(msg),
                            t, begin)

\* place_post_only_limit: the volume raised to the minimum, not rounded
PlacedVolume(r, v, price) ==
    LET min_vol == min_volume_for_price(r, price)
    IN  IF min_vol > 0 /\ v < min_vol THEN min_vol ELSE v

PostOnlyFields(r, s, v, price) ==
    [ordertype |-> "limit", type |-> s, volume |-> PlacedVolume(r, v, price),
     price |-> price, oflags |-> "post", timeinforce |-> "GTD",
     expiretm |-> "+" \o ToString(ExpireS)]

NoRun == [orders |-> <<>>, outcome |-> "none"]

\* The runs of one retry loop of on_new_candle from its attempt n on: the
\* order goes out at price; it is accepted, or _http_post raises, or it is
\* rejected; after a rejection the ticker gives no book (the loop ends) or a
\* book, from which the next price is taken.  src and ref record where the
\* price came from: the candle's close, or the book's bid or ask.
RECURSIVE Attempts(_, _, _, _, _, _, _)
Attempts(r, s, v, price, src, ref, n) ==
    LET order(resp) == [fields |-> PostOnlyFields(r, s, v, price),
                        src |-> src, ref |-> ref, resp |-> resp]
        retried ==
            IF n + 1 < MaxAttempts
            THEN UNION { Attempts(r, s, v, RetryPrice(s, b, r.tick_size),
                                  "book", IF s = "buy" THEN b.bid ELSE b.ask,
                                  n + 1) : b \in StratBooks }
            ELSE {}
    IN  { [orders |-> <<order("accepted")>>, outcome |-> "accepted"],
          [orders |-> <<order("raised")>>, outcome |-> "raised"],
          [orders |-> <<order("rejected")>>, outcome |-> "gave_up"] }
        \cup { [orders |-> <<order("rejected")>> \o rest.orders,
                outcome |-> rest.outcome] : rest \in retried }

\* last_candle_time is not None and last_candle_time >= current["time"],
\* with a comparison that lets an equal timestamp through
IsStale_Older(last, t) == last # NoTime /\ last > t

\* last_candle_time is not None and last_candle_time >= current["time"]
IsStale(last, t) == last # NoTime /\ last >= t

\* long_entry that does not look at the position
LongEntry_IgnoresPosition(close, high, pos) == close > high

\* the seeding test answering that the levels are always there
NeedsSeed_Never(high, low) == FALSE

\* self.prev_high is None or self.prev_low is None
NeedsSeed(high, low) == high = NoLevel \/ low = NoLevel

LongEntry(close, high, pos) == close > high /\ pos = 0

LongExit(close, low, pos) == close < low /\ pos > 0

Min(a, b) == IF a <= b THEN a ELSE b

\* What one pass of the strategy loop leaves behind.
Returns(pos, sent, bal, high, low, where, how) ==
    /\ position_size' = pos
    /\ placed' = sent
    /\ avail' = bal
    /\ prev_high' = high
    /\ prev_low' = low
    /\ ctx' = where
    /\ lastCall' = how

\* CandleBreakoutStrategy.on_new_candle(current), from entry to return or to
\* the exception that leaves it.
OnNewCandle(current) ==
    IF IsStale(last_candle_time, current.time)
    THEN /\ Returns(position_size, <<>>, NotAsked, prev_high, prev_low,
                    "running", "stale")
         /\ UNCHANGED <<last_candle_time, evals>>
    ELSE
    /\ last_candle_time' = current.time
    /\ evals' = Append(evals, current.interval_begin)
    /\ IF NeedsSeed(prev_high, prev_low)
       THEN Returns(position_size, <<>>, NotAsked, current.high, current.low,
                    "running", "seeded")
       ELSE
       LET close == current.close
           tick == rules.tick_size
           long_entry == LongEntry(close, prev_high, position_size)
           long_exit == LongExit(close, prev_low, position_size)
           buys == IF long_entry
                   THEN Attempts(rules, "buy", qty,
                                 EntryPrice(close, BufferThousandths, tick),
                                 "close", close, 0)
                   ELSE {NoRun}
       IN  \E buy \in buys :
           LET held == IF buy.outcome = "accepted" THEN qty
                       ELSE position_size
           IN  IF buy.outcome = "raised"
               THEN Returns(position_size, buy.orders, NotAsked,
                            prev_high, prev_low, "crashed", "raised")
               ELSE IF ~long_exit
               THEN Returns(held, buy.orders, NotAsked,
                            current.high, current.low, "running", "evaluated")
               ELSE
               \E available_base \in Balances :
               LET sell_volume == IF available_base > 0
                                  THEN Min(held, available_base) ELSE 0
               IN  IF sell_volume <= 0
                   THEN Returns(held, buy.orders, available_base,
                                prev_high, prev_low, "running", "skipped")
                   ELSE
                   \E sell \in Attempts(rules, "sell", sell_volume,
                               ExitPrice(close, BufferThousandths, tick),
                               "close", close, 0) :
                       IF sell.outcome = "raised"
                       THEN Returns(held, buy.orders \o sell.orders,
                                    available_base, prev_high, prev_low,
                                    "crashed", "raised")
                       ELSE Returns(IF sell.outcome = "accepted"
                                    THEN held - sell_volume ELSE held,
                                    buy.orders \o sell.orders, available_base,
                                    current.high, current.low,
                                    "running", "evaluated")

\* TradingContext.run, the start-up position sync.
StartupSync ==
    /\ ctx = "startup"
    /\ \E available_base \in Balances :
           position_size' = IF available_base > 0 THEN available_base
                            ELSE position_size
    /\ ctx' = "running"
    /\ UNCHANGED <<qty, prev_high, prev_low, last_candle_time, streamVars,
                   placed, avail, evals, lastCall, engineVars, pureVars, auxVars,
                   otherVars>>

\* TradingContext.run, one pass of the while loop.
RunLoop ==
    /\ ctx = "running"
    /\ IF is_subscribed /\ Len(candles) >= 1
       THEN OnNewCandle(Last(candles))
       ELSE /\ Returns(position_size, <<>>, NotAsked, prev_high, prev_low,
                       "running", "waiting")
            /\ UNCHANGED <<last_candle_time, evals>>
    /\ UNCHANGED <<qty, streamVars, engineVars, pureVars, auxVars,
                   otherVars>>

\* OHLCSocketClient.run receives the subscription acknowledgement.
SubscribeAck ==
    /\ ctx = "running"
    /\ is_subscribed' = TRUE
    /\ UNCHANGED <<candles, now, feedPeriod, strategyVars, ctx, placed,
                   avail, evals, lastCall, engineVars, pureVars, auxVars,
                   otherVars>>

\* OHLCSocketClient.run loses the connection or fails on a message.
ConnectionLost ==
    /\ ctx = "running"
    /\ is_subscribed' = FALSE
    /\ UNCHANGED <<candles, now, feedPeriod, strategyVars, ctx, placed,
                   avail, evals, lastCall, engineVars, pureVars, auxVars,
                   otherVars>>

\* OHLCSocketClient.run receives an ohlc message of the current period.
OhlcMessage ==
    /\ ctx = "running"
    /\ \E msg \in Messages :
           candles' = update_candles(candles, msg, now, feedPeriod)
    /\ UNCHANGED <<is_subscribed, now, feedPeriod, strategyVars, ctx, placed,
                   avail, evals, lastCall, engineVars, pureVars, auxVars,
                   otherVars>>

\* A second passes.
Tick ==
    /\ now < MaxNow
    /\ now' = now + 1
    /\ UNCHANGED <<candles, is_subscribed, feedPeriod, strategyVars, ctx,
                   placed, avail, evals, lastCall, engineVars, pureVars, auxVars,
                   otherVars>>

\* The feed moves on to the candle period that begins now.
NewPeriod ==
    /\ feedPeriod < now
    /\ feedPeriod' = now
    /\ UNCHANGED <<candles, is_subscribed, now, strategyVars, ctx,
                   placed, avail, evals, lastCall, engineVars, pureVars, auxVars,
                   otherVars>>

InitStrategy ==
    /\ InitEngine /\ PureIdle /\ ResolveIdle
    /\ \E q \in Qtys : StrategyConstructed(q)

NextStrategy ==
    \/ StartupSync \/ RunLoop
    \/ SubscribeAck \/ ConnectionLost \/ OhlcMessage
    \/ Tick \/ NewPeriod

SpecStrategy == InitStrategy /\ [][NextStrategy]_vars

\* ------------------------------------------------- the claims, C16 .. C20

\* C16: in every reachable state of the strategy position_size is a
\* non-negative multiple of the lot step.
C16_PositionOnLotGrid ==
    /\ position_size >= 0
    /\ position_size % rules.lot_step = 0

Buys == {i \in DOMAIN placed : placed[i].fields.type = "buy"}
Sells == {i \in DOMAIN placed : placed[i].fields.type = "sell"}

StaleAtEntry ==
    /\ is_subscribed
    /\ Len(candles) >= 1
    /\ last_candle_time # NoTime
    /\ Last(candles).time <= last_candle_time

\* C18: a call of on_new_candle with a candle whose timestamp is not above
\* the last one processed changes no strategy state, evaluates nothing and
\* submits no order; every evaluation raises the last processed timestamp.
C18_StaleIsNoOp ==
    [][ /\ (RunLoop /\ StaleAtEntry) =>
              /\ UNCHANGED <<strategyVars, evals>>
              /\ placed' = <<>>
        /\ evals' # evals => last_candle_time' > last_candle_time ]_vars

C18_Witness ==
    /\ lastCall = "stale"
    /\ StaleAtEntry
    /\ Len(evals) >= 2
    /\ position_size > 0

\* C19: the timestamp of a buffered candle is the period start the feed
\* delivered, and no feed period is evaluated more than once.
C19_OneEvaluationPerPeriod ==
    /\ \A i \in DOMAIN candles : candles[i].time = candles[i].interval_begin
    /\ \A i, j \in DOMAIN evals : i # j => evals[i] # evals[j]

Evaluations == {"evaluated", "skipped", "raised"}

\* C20 (as claimed): a call that evaluates a candle after seeding submits a
\* buy iff close > prev_high and the position is flat, a sell iff
\* close < prev_low and the position is long, on the state at entry; never
\* both.
C20_SignalsAsClaimed ==
    [][ (RunLoop /\ lastCall' \in Evaluations) =>
            LET close == Last(candles).close
                bought == \E i \in DOMAIN placed' :
                              placed'[i].fields.type = "buy"
                sold == \E i \in DOMAIN placed' :
                            placed'[i].fields.type = "sell"
            IN  /\ bought <=> (close > prev_high /\ position_size = 0)
                /\ sold <=> (close < prev_low /\ position_size > 0)
                /\ ~(bought /\ sold) ]_vars

\* C20 (amended): as claimed for the buy; a sell is submitted iff
\* close < prev_low, the position is long and the balance call reports an
\* available base balance above zero.
C20_SignalsWithBalance ==
    [][ (RunLoop /\ lastCall' \in Evaluations) =>
            LET close == Last(candles).close
                bought == \E i \in DOMAIN placed' :
                              placed'[i].fields.type = "buy"
                sold == \E i \in DOMAIN placed' :
                            placed'[i].fields.type = "sell"
            IN  /\ bought <=> (close > prev_high /\ position_size = 0)
                /\ sold <=> (close < prev_low /\ position_size > 0
                               /\ avail' > 0)
                /\ ~(bought /\ sold)
                /\ bought => position_size = 0
                /\ sold => position_size > 0 ]_vars

C20_Witness ==
    /\ lastCall = "skipped"
    /\ avail = 0
    /\ placed = <<>>
    /\ position_size > 0
    /\ Last(candles).close < prev_low

\* ------------------------------ kraken_LB1m_ARB.py: OHLCSocketClient.run

\* data of a received message: channel, method, success, error, and the
\* candle entries under "data"
Inbound ==
    { m \in [channel : {"status", "heartbeat", "ohlc", "none"},
             method : {"subscribe", "none"}, success : BOOLEAN,
             error : BOOLEAN, data : Messages \cup {<<>>}] :
        /\ m.success => m.method = "subscribe"
        /\ m.data # <<>> => m.channel = "ohlc" }

Header(m) ==
    [channel |-> m.channel, method |-> m.method, success |-> m.success,
     error |-> m.error, n |-> Len(m.data)]

\* the branches that end with continue, without the heartbeat
Skipped_NoHeartbeat(m) ==
    \/ m.channel = "status"
    \/ m.method = "subscribe" /\ m.success

\* The branches of the receive loop that end with continue: a status
\* message, a subscription acknowledgement, a heartbeat.
Skipped(m) ==
    \/ m.channel = "status"
    \/ m.method = "subscribe" /\ m.success
    \/ m.channel = "heartbeat"

\* The acknowledgement branch is reached and taken.
Acked(m) == m.channel # "status" /\ m.method = "subscribe" /\ m.success

\* the error check that lets every message pass
Raises_Never(m) == FALSE

\* if data.get("error"): raise Exception("WebSocket API Error")
Raises(m) == ~Skipped(m) /\ m.error

\* what can leave the connection attempt, and the session
ConnectExceptions == {"ConnectionRefusedError", "OSError"}
SessionExceptions == {"ConnectionClosed", "JSONDecodeError"}
Backoffs == {"backoff5", "backoff10"}

\* handlers that let everything but a closed or refused connection escape
OnException_Escapes(e) ==
    IF e \in {"ConnectionClosed", "ConnectionRefusedError"}
    THEN "backoff5" ELSE "dead"

\* except (ConnectionClosed, ConnectionRefusedError): sleep(5);
\* except Exception: sleep(10)
OnException(e) ==
    IF e \in {"ConnectionClosed", "ConnectionRefusedError"}
    THEN "backoff5" ELSE "backoff10"

\* websockets.connect succeeds and the subscription is sent.
Connect ==
    /\ conn = "connecting"
    /\ conn' = "open"
    /\ fresh' = FALSE
    /\ UNCHANGED <<lastEnd, handled, streamVars, strategyVars, ctx, placed,
                   avail, evals, lastCall, resolveVars, engineVars, pureVars, auxVars>>

\* websockets.connect or the send of the subscription raises.
ConnectFails ==
    /\ conn = "connecting"
    /\ \E e \in ConnectExceptions :
           /\ conn' = OnException(e)
           /\ lastEnd' = e
    /\ is_subscribed' = FALSE
    /\ UNCHANGED <<handled, fresh, candles, now, feedPeriod, strategyVars, ctx,
                   placed, avail, evals, lastCall, resolveVars, engineVars,
                   pureVars, auxVars>>

\* One message is received and handled.
Receive(m) ==
    /\ conn = "open"
    /\ handled' = Header(m)
    /\ candles' = IF ~Skipped(m) /\ m.channel = "ohlc" /\ m.data # <<>>
                  THEN update_candles(candles, m.data, now, feedPeriod)
                  ELSE candles
    /\ fresh' = ((~Skipped(m) /\ m.channel = "ohlc" /\ m.data # <<>>) \/ fresh)
    /\ IF Raises(m)
       THEN /\ conn' = OnException("Exception")
            /\ lastEnd' = "Exception"
            /\ is_subscribed' = FALSE
       ELSE /\ is_subscribed' = (Acked(m) \/ is_subscribed)
            /\ UNCHANGED <<conn, lastEnd>>
    /\ UNCHANGED <<now, feedPeriod, strategyVars, ctx, placed, avail, evals,
                   lastCall, resolveVars, engineVars, pureVars, auxVars>>

ReceiveMessage == \E m \in Inbound : Receive(m)

\* The session ends with an exception: the connection is closed abnormally,
\* a message is no JSON, an ohlc entry lacks a field.
SessionFails ==
    /\ conn = "open"
    /\ \E e \in SessionExceptions :
           /\ conn' = OnException(e)
           /\ lastEnd' = e
    /\ is_subscribed' = FALSE
    /\ UNCHANGED <<handled, fresh, candles, now, feedPeriod, strategyVars, ctx,
                   placed, avail, evals, lastCall, resolveVars, engineVars,
                   pureVars, auxVars>>

\* The peer closes the connection with code 1000 or 1001: the async for
\* ends without an exception and the while loop starts over.
ClosedCleanly ==
    /\ conn = "open"
    /\ conn' = "connecting"
    /\ lastEnd' = "clean"
    /\ UNCHANGED <<handled, fresh, streamVars, strategyVars, ctx, placed, avail,
                   evals, lastCall, resolveVars, engineVars, pureVars, auxVars>>

\* asyncio.sleep(5) or asyncio.sleep(10) returns.
BackoffEnds ==
    /\ conn \in Backoffs
    /\ conn' = "connecting"
    /\ UNCHANGED <<lastEnd, handled, fresh, streamVars, strategyVars, ctx, placed,
                   avail, evals, lastCall, resolveVars, engineVars, pureVars, auxVars>>

NextStream ==
    \/ Connect \/ ConnectFails
    \/ ReceiveMessage \/ SessionFails \/ ClosedCleanly
    \/ BackoffEnds
    \/ Tick \/ NewPeriod

\* The stream reads no pair rule but the symbol name.
InitStream == Init /\ rules = [tick_size |-> 1, lot_step |-> 1, ordermin |-> 0, costmin |-> 0]

SpecStream == InitStream /\ [][NextStream]_vars /\ WF_vars(BackoffEnds)

\* ---------------------------------------- KrakenClient._fetch_pair_rules

MaxEntries == 2     \* an AssetPairs result holds 0 .. MaxEntries entries

Symbols == {"ARBUSD", "arbusd", "XYZUSD"}

\* (key, pairinfo) items of an AssetPairs result, pairinfo cut to altname
\* and wsname; "" is a pairinfo without wsname (pairinfo.get("wsname", ""))
Entries ==
    { [key |-> "ARBUSD", altname |-> "ARBUSD", wsname |-> "ARB/USD"],
      [key |-> "XARB", altname |-> "ArbUsd", wsname |-> ""],
      [key |-> "AVAXUSD", altname |-> "AVAXUSD", wsname |-> "AVAX/USD"] }

\* str.upper() on the names in use
Upper(n) == IF n \in {"arbusd", "ArbUsd"} THEN "ARBUSD" ELSE n

\* result dictionaries, in the order of their items
Results ==
    { q \in UNION { [1 .. n -> Entries] : n \in 0 .. MaxEntries } :
        \A i, j \in DOMAIN q : i # j => q[i].key # q[j].key }

\* An error payload carries no result.
Responses ==
    { [error |-> TRUE, result |-> <<>>] }
        \cup { [error |-> FALSE, result |-> q] : q \in Results }

SameName(e, sym) == Upper(e.altname) = Upper(sym)
SameSpelling(e, sym) == e.altname = sym

\* candidates compared without upper()
Candidates_CaseSensitive(result, sym) ==
    SelectSeq(result, LAMBDA e : SameSpelling(e, sym))

\* [(k, v) for k, v in result.items()
\*          if v.get("altname", "").upper() == altname_guess.upper()]
Candidates(result, sym) == SelectSeq(result, LAMBDA e : SameName(e, sym))

\* KrakenClient(symbol) calls _fetch_pair_rules(symbol).
Resolve ==
    /\ rpc = "idle"
    /\ altname_guess' \in Symbols
    /\ rpc' = "filtered"
    /\ UNCHANGED <<fetched, resolved, connVars, strategyVars, streamVars,
                   ctx, placed, avail, evals, lastCall, engineVars, pureVars, auxVars>>

\* The AssetPairs query with the pair filter is answered.
FilteredAnswer ==
    /\ rpc = "filtered"
    /\ \E data \in Responses :
           /\ fetched' = Append(fetched, [params |-> "pair", data |-> data])
           /\ IF data.error
              THEN rpc' = "ValueError" /\ UNCHANGED resolved
              ELSE IF data.result = <<>>
              THEN rpc' = "full" /\ UNCHANGED resolved
              ELSE rpc' = "resolved" /\ resolved' = data.result[1]
    /\ UNCHANGED <<altname_guess, connVars, strategyVars, streamVars,
                   ctx, placed, avail, evals, lastCall, engineVars, pureVars, auxVars>>

\* The AssetPairs query without a filter is answered.
FullAnswer ==
    /\ rpc = "full"
    /\ \E data \in Responses :
           LET candidates == Candidates(data.result, altname_guess)
           IN  /\ fetched' = Append(fetched, [params |-> "all", data |-> data])
               /\ IF candidates = <<>>
                  THEN rpc' = "ValueError" /\ UNCHANGED resolved
                  ELSE rpc' = "resolved" /\ resolved' = candidates[1]
    /\ UNCHANGED <<altname_guess, connVars, strategyVars, streamVars,
                   ctx, placed, avail, evals, lastCall, engineVars, pureVars, auxVars>>

\* urlopen raises in _http_get.
FetchRaises ==
    /\ rpc \in {"filtered", "full"}
    /\ rpc' = "raised"
    /\ UNCHANGED <<altname_guess, fetched, resolved, connVars, strategyVars,
                   streamVars, ctx, placed, avail, evals, lastCall,
                   engineVars, pureVars, auxVars>>

NextResolve == Resolve \/ FilteredAnswer \/ FullAnswer \/ FetchRaises

SpecResolve == Init /\ [][NextResolve]_vars

\* ------------------------------------------- the claims, C21, C28 and C29

\* C21 (as claimed): the first two candles only seed; no order is submitted
\* before the third distinct candle is processed.
C21_SeedsTwoCandles ==
    placed # <<>> => Len(evals) >= 3

\* C21 (amended): only the first candle seeds the previous high/low; no
\* order is submitted before the second distinct candle is processed, and
\* from the first candle on the levels are set.
C21_SeedsFirstCandle ==
    /\ Len(evals) <= 1 => placed = <<>>
    /\ lastCall = "seeded" => Len(evals) = 1
    /\ Len(evals) = 0 <=> prev_high = NoLevel
    /\ Len(evals) = 0 <=> prev_low = NoLevel

C21_Witness ==
    /\ Len(evals) = 2
    /\ lastCall = "evaluated"
    /\ placed # <<>>

\* C28: the strategy loop never finds the buffer between the removal of
\* the old last slot and the insertion of the new one: once a candle is
\* stored the buffer is never empty, and every candle in it has the high,
\* low and close of one update.
C28_ReadsWholeCandle ==
    [][ /\ candles # <<>> => candles' # <<>>
        /\ \A i \in DOMAIN candles' :
               [high |-> candles'[i].high, low |-> candles'[i].low,
                close |-> candles'[i].close] \in CandleShapes ]_vars

C28_Witness ==
    /\ lastCall = "evaluated"
    /\ Len(evals) >= 2
    /\ Len(candles) >= 1
    /\ Last(candles).time > last_candle_time

\* C29: no exception ends the strategy loop.
C29_LoopNeverDies == ctx # "crashed"

\* ------------------------------------------------- the claims, C22 .. C27

\* C22: whenever a connection attempt fails or a session ends, the stream
\* sleeps a backoff before it connects again, 5 seconds after a close or a
\* refusal and 10 seconds after any other error; no connection attempt
\* starts without a preceding backoff.
C22_BackoffBeforeReconnect ==
    [][ /\ (conn' = "connecting" /\ conn # "connecting") => conn \in Backoffs
        /\ (conn' = "backoff5" /\ conn # "backoff5") =>
               lastEnd' \in {"ConnectionClosed", "ConnectionRefusedError"}
        /\ (conn' = "backoff10" /\ conn # "backoff10") =>
               lastEnd' \notin {"ConnectionClosed", "ConnectionRefusedError",
                                "clean"} ]_vars

\* C23: is_subscribed is true only inside a session whose subscription was
\* acknowledged; it is false whenever the stream is about to connect.
C23_LiveOnlyInSession ==
    /\ is_subscribed => conn = "open"
    /\ conn = "connecting" => ~is_subscribed

\* C24: no exception leaves the run loop of the stream, and after every
\* failure the stream is eventually connecting again.
C24_AlwaysReconnects ==
    /\ [](conn \in {"connecting", "open"} \cup Backoffs)
    /\ (conn \in Backoffs) ~> (conn = "connecting")

C24_Witness ==
    /\ conn = "connecting"
    /\ lastEnd = "JSONDecodeError"

\* The messages whose header is h.
MessagesLike(h) ==
    { [channel |-> h.channel, method |-> h.method, success |-> h.success,
       error |-> h.error, data |-> d] :
        d \in IF h.n = 0 THEN {<<>>} ELSE [1 .. h.n -> CandleShapes] }

\* C25 (as claimed): a received message that carries an error ends the
\* session with is_subscribed false and the 10-second backoff, whatever its
\* other fields.
C25_EveryErrorRaises ==
    [][ \A m \in MessagesLike(handled') :
            (Receive(m) /\ m.error) =>
                /\ conn' = "backoff10"
                /\ ~is_subscribed' ]_vars

\* C25 (amended): a received message that carries an error ends the
\* session with is_subscribed false and the 10-second backoff unless it is
\* a status message, a heartbeat or a successful subscription
\* acknowledgement, which are handled before the error check and leave the
\* session open; a rejected subscription ends the session.
C25_UnhandledErrorRaises ==
    [][ \A m \in MessagesLike(handled') :
            (Receive(m) /\ m.error) =>
                IF \/ m.channel \in {"status", "heartbeat"}
                   \/ m.method = "subscribe" /\ m.success
                THEN conn' = "open" /\ lastEnd' = lastEnd
                ELSE /\ conn' = "backoff10"
                     /\ ~is_subscribed'
                     /\ lastEnd' = "Exception" ]_vars

C25_Witness ==
    /\ conn = "backoff10"
    /\ lastEnd = "Exception"
    /\ ~is_subscribed
    /\ handled.error
    /\ handled.method = "subscribe" /\ ~handled.success

\* C26: handling a candle message of n >= 1 entries leaves the message's
\* last entry in the last slot, the slots before it unchanged, and the
\* length unchanged, or 1 if the buffer was empty.
C26_LastSlotReplaced ==
    [][ \A m \in MessagesLike(handled') :
            (/\ Receive(m)
             /\ m.channel = "ohlc"
             /\ ~(m.method = "subscribe" /\ m.success)
             /\ Len(m.data) >= 1) =>
                LET n == Len(candles')
                    e == m.data[Len(m.data)]
                IN  /\ n = IF candles = <<>> THEN 1 ELSE Len(candles)
                    /\ candles'[n].high = e.high
                    /\ candles'[n].low = e.low
                    /\ candles'[n].close = e.close
                    /\ \A i \in 1 .. n - 1 : candles'[i] = candles[i] ]_vars

C26_Witness ==
    /\ handled.channel = "ohlc"
    /\ handled.n = MaxMsgLen
    /\ Len(candles) = 1
    /\ candles[1].time > candles[1].interval_begin

\* C27: the buffer's timestamps are non-decreasing, and an update never
\* removes one of the two most recent candles: a buffered candle of an
\* earlier period is still in the buffer after the update.
C27_RecentCandlesKept ==
    [][ /\ \A i, j \in DOMAIN candles' :
               i <= j => candles'[i].time <= candles'[j].time
        /\ \A i \in DOMAIN candles :
               (i > Len(candles) - 2
                  /\ candles[i].interval_begin < feedPeriod) =>
                   \E j \in DOMAIN candles' : candles'[j] = candles[i] ]_vars

\* --------------------------------------------------------- the claim C30

Decided == rpc \in {"resolved", "ValueError"}

\* The first full-set entry whose altname equals the symbol without regard
\* to case is the resolved one; without such an entry resolution fails.
FullSetDecides(full) ==
    LET matches == {i \in DOMAIN full : Upper(full[i].altname)
                                          = Upper(altname_guess)}
    IN  IF matches = {}
        THEN rpc = "ValueError"
        ELSE /\ rpc = "resolved"
             /\ \E i \in matches : /\ resolved = full[i]
                                   /\ \A j \in matches : i <= j

\* C30 (as claimed): a non-empty filtered result gives the entry; whenever
\* the filtered query returns nothing the full set is fetched and searched
\* by altname without regard to case; the full set is fetched in no other
\* case; a failure resolves nothing.
C30_FallbackWhenNothing ==
    Decided =>
        LET first == fetched[1].data
        IN  /\ first.result # <<>> =>
                /\ rpc = "resolved" /\ resolved = first.result[1]
                /\ Len(fetched) = 1
            /\ first.result = <<>> =>
                /\ Len(fetched) = 2
                /\ FullSetDecides(fetched[2].data.result)
            /\ rpc = "ValueError" => resolved = NoEntry

\* C30 (amended): an error payload of the filtered query fails the
\* resolution at once, without the full set being fetched; otherwise as
\* claimed.
C30_ResolutionOrder ==
    Decided =>
        LET first == fetched[1].data
        IN  /\ fetched[1].params = "pair"
            /\ first.error => rpc = "ValueError" /\ Len(fetched) = 1
            /\ first.result # <<>> =>
                /\ rpc = "resolved" /\ resolved = first.result[1]
                /\ Len(fetched) = 1
            /\ (~first.error /\ first.result = <<>>) =>
                /\ Len(fetched) = 2
                /\ fetched[2].params = "all"
                /\ FullSetDecides(fetched[2].data.result)
            /\ rpc = "ValueError" => resolved = NoEntry

C30_Witness ==
    /\ rpc = "resolved"
    /\ Len(fetched) = 2
    /\ resolved.altname # altname_guess
    /\ fetched[2].data.result[1] # resolved

\* --------------------------------------------------------- the claim C31

\* wsname.replace("XBT", "BTC") on the names in use
Normalized(w) == IF w = "XBT/USD" THEN "BTC/USD" ELSE w

\* "/" in wsname, and wsname.split("/")
HasSlash(w) == w \in {"ARB/USD", "AVAX/USD", "BTC/USD"}
SplitSlash(w) ==
    CASE w = "ARB/USD" -> [base |-> "ARB", quote |-> "USD"]
      [] w = "AVAX/USD" -> [base |-> "AVAX", quote |-> "USD"]
      [] OTHER -> [base |-> "BTC", quote |-> "USD"]

\* altname[:3], altname[3:] on the names in use
SplitAt3(n) ==
    CASE n = "ARBUSD" -> [base |-> "ARB", quote |-> "USD"]
      [] n = "ArbUsd" -> [base |-> "Arb", quote |-> "Usd"]
      [] OTHER -> [base |-> "AVA", quote |-> "XUSD"]

\* The PairRules built from the resolved entry: base and quote come from the
\* wsname or, without a "/", from the altname; the wsname is stored as read.
PairRulesOf(e) ==
    LET wsname == Normalized(e.wsname)
        parts == IF HasSlash(wsname) THEN SplitSlash(wsname)
                 ELSE SplitAt3(e.altname)
    IN  [pair_key |-> e.key, altname |-> e.altname, base |-> parts.base,
         quote |-> parts.quote, wsname |-> wsname]

\* OHLCSocketClient.__init__: self.symbol = client.rules.wsname, sent as
\* params.symbol of the subscription.
SubscriptionSymbol(r) == r.wsname

\* C31: when the pair's metadata has no "base/quote" field the channel
\* symbol is derived from the trade name; the stream never subscribes with
\* an empty or underived symbol.
C31_SymbolNeverEmpty ==
    rpc = "resolved" => SubscriptionSymbol(PairRulesOf(resolved)) # ""

\* --------------------------------------------------------- the claim C32

\* The volume of the maker order that has filled, and the volume of an
\* accepted taker order.
MakerFill == IF makerState = "closed" THEN vol ELSE 0
TakerVolume ==
    IF \E i \in TakerCalls : calls[i].out = "ok" THEN vol2 ELSE 0

\* C32: under every interleaving of exchange fills with the engine's query,
\* cancel and taker steps, the maker fill plus the taker order's volume is
\* at most the coerced requested volume of the invocation.
C32_FillWithinRequest ==
    MakerFill + TakerVolume <= IF vol >= vol2 THEN vol ELSE vol2

\* ------------------------------ the strategy's orders on the exchange, C33

\* A counterparty takes the order the exchange accepted in the latest pass
\* of the strategy loop.  A post-only order rests until it is filled or its
\* expiretm passes; nothing in kraken_LB1m_ARB.py reads what became of it.
OrderFills ==
    /\ \E i \in DOMAIN placed :
           /\ placed[i].resp = "accepted"
           /\ \A f \in fills : f.eval # Len(evals)
           /\ fills' = fills \cup {[eval |-> Len(evals),
                                    type |-> placed[i].fields.type]}
    /\ UNCHANGED <<loop, errors, engineVars, pureVars, stratVars>>

InitFills ==
    /\ InitStrategy
    /\ rules.tick_size = 1
    /\ qty = 3

NextFills ==
    \/ StartupSync \/ RunLoop
    \/ SubscribeAck \/ ConnectionLost \/ OhlcMessage
    \/ Tick \/ NewPeriod
    \/ OrderFills

SpecFills == InitFills /\ [][NextFills]_vars

\* C33: position_size rises only at the start-up sync or when a buy order
\* the strategy placed has been filled, and falls only when a sell order it
\* placed has been filled; an order that was merely accepted changes
\* nothing.
C33_PositionFollowsFills ==
    [][ /\ (position_size' > position_size /\ ctx # "startup") =>
               \E f \in fills' : f.type = "buy"
        /\ position_size' < position_size =>
               \E f \in fills' : f.type = "sell" ]_vars

\* --------------------------------------------------------- the claim C34

\* C34: after an accepted order the change recorded in position_size equals
\* the volume place_post_only_limit sent to the exchange, also when the
\* requested volume was raised to the minimum.
C34_RecordedIsSubmitted ==
    [][ RunLoop =>
          \A i \in DOMAIN placed' :
              placed'[i].resp = "accepted" =>
                  IF placed'[i].fields.type = "buy"
                  THEN position_size' - position_size
                           = placed'[i].fields.volume
                  ELSE position_size - position_size'
                           = placed'[i].fields.volume ]_vars

\* --------------------------------------------------------- the claim C35

\* C35: after every call of on_new_candle that accepts a candle as new and
\* is past the seeding step, previous high/low equal that candle's
\* high/low, on every path on which the call returns.
C35_LevelsRolled ==
    [][ (RunLoop /\ evals' # evals /\ lastCall' \notin {"seeded", "raised"}) =>
            /\ prev_high' = Last(candles).high
            /\ prev_low' = Last(candles).low ]_vars

\* --------------------------------------------------------- the claim C36

\* C36: the orders of one entry or exit signal are at most three, all
\* post-only and of one side; every order but the last was rejected, so
\* nothing follows an accepted order; an order that follows a rejected one
\* is priced from the book, at the best bid less one tick for a buy and the
\* best ask plus one tick for a sell, on the tick grid (exactly so when the
\* quote is on the grid, truncated toward zero otherwise).
C36_BoundedRetries ==
    LET n == Len(placed)
        t == rules.tick_size
    IN  /\ n <= MaxAttempts
        /\ \A i \in DOMAIN placed :
               LET o == placed[i]
                   p == o.fields.price
                   target == IF o.fields.type = "buy" THEN o.ref - t
                             ELSE o.ref + t
               IN  /\ o.fields.oflags = "post"
                   /\ o.fields.type = placed[1].fields.type
                   /\ i < n => o.resp = "rejected"
                   /\ i > 1 =>
                        /\ o.src = "book"
                        /\ p % t = 0
                        /\ o.ref % t = 0 => p = target
                        /\ target >= 0 => p <= target /\ target < p + t
                        /\ target < 0 =>
                               target <= p /\ p <= 0 /\ p - target < t

C36_Witness ==
    /\ lastCall = "evaluated"
    /\ Len(placed) = MaxAttempts
    /\ Sells = DOMAIN placed
    /\ placed[MaxAttempts].resp = "accepted"
    /\ placed[2].fields.price = placed[2].ref + rules.tick_size
    /\ placed[3].ref # placed[2].ref

\* ------------- the stream and the strategy loop together, C37 and C38

\* What a session receives after the subscription is sent: the
\* acknowledgement, an ohlc message of one entry, an error message.
LiveInbound ==
    { m \in Inbound :
        /\ m.method = "subscribe" <=> m.success
        /\ m.channel = "ohlc" <=> Len(m.data) = 1
        /\ m.channel \in {"ohlc", "none"}
        /\ m.channel = "none" <=> (m.success \/ m.error)
        /\ ~(m.success /\ m.error) }

ReceiveLive == \E m \in LiveInbound : Receive(m)

\* The strategy built with qty 3 for a pair without minimum volumes.
InitLive ==
    /\ InitEngine /\ PureIdle /\ ResolveIdle
    /\ rules = [tick_size |-> 1, lot_step |-> 1, ordermin |-> 0, costmin |-> 0]
    /\ StrategyConstructed(3)

\* TradingContext.run and OHLCSocketClient.run on one event loop, with a
\* server that accepts every connection and a feed that stays in one period.
NextLive ==
    \/ StartupSync \/ RunLoop
    \/ Connect
    \/ ReceiveLive \/ SessionFails \/ ClosedCleanly
    \/ BackoffEnds
    \/ Tick

SpecLive == InitLive /\ [][NextLive]_vars

\* C37: the strategy loop calls on_new_candle only when is_subscribed is
\* true and the buffer holds a candle; while the stream is not in an open
\* session no candle is evaluated and no order is placed.
C37_EvaluatesOnlyLive ==
    [][ RunLoop =>
          /\ lastCall' # "waiting" => is_subscribed /\ candles # <<>>
          /\ conn # "open" => evals' = evals /\ placed' = <<>> ]_vars

\* The open session follows a failed one and its subscription has been
\* acknowledged: every failure clears is_subscribed, which only an
\* acknowledgement sets again.
AckedAfterReconnect ==
    /\ conn = "open"
    /\ is_subscribed
    /\ lastEnd \notin {"none", "clean"}

\* C38: after a reconnect, every breakout evaluation that follows the
\* subscription acknowledgement uses a candle that was stored in the
\* session of that acknowledgement.
C38_EvaluatesThisSession ==
    [][ (RunLoop /\ lastCall' \in Evaluations /\ AckedAfterReconnect) =>
            fresh ]_vars

\* ---------------------- kraken_LB1m_AVAX.py: TradingContext.run, C39

MaxErrors == 60     \* the loop is followed for MaxErrors passes of its handler

\* The functions defined at the top level of kraken_LB1m_AVAX.py, and
\* those defined in the body of class KrakenClient.
ModuleFunctions == {"_nonce_ms", "_kraken_sign", "_http_post", "_http_get"}
ClientMethods ==
    {"__init__", "_coerce_volume", "get_best_bid_ask", "query_order",
     "cancel_order", "_fetch_pair_rules", "fetch_latest_candles",
     "_round_volume", "_min_volume_for_price", "place_maker_then_taker",
     "place_post_only_limit", "sleep_until_next_minute"}

\* A bare name in TradingContext.run is looked up among the module's
\* globals; a name bound only in a class body is not one of them.
Lookup(name) == IF name \in ModuleFunctions THEN "found" ELSE "NameError"

\* try: sleep_until_next_minute(offset_s=0.2), the first statement of the
\* loop body: the lookup raises, and the exception is caught by the
\* handler of the loop; the statements after it (the candle fetch, the
\* call of on_new_candle) are not reached.
CallSleep ==
    /\ loop = "sleep"
    /\ loop' = IF Lookup("sleep_until_next_minute") = "found"
               THEN "fetch" ELSE "handler"
    /\ UNCHANGED <<fills, errors, engineVars, pureVars, stratVars>>

\* except Exception as e: print("Error in loop:", e); time.sleep(2)
HandleError ==
    /\ loop = "handler"
    /\ errors < MaxErrors
    /\ errors' = errors + 1
    /\ loop' = "sleep"
    /\ UNCHANGED <<fills, engineVars, pureVars, stratVars>>

NextPoll == CallSleep \/ HandleError

SpecPoll == Init /\ [][NextPoll]_vars

\* C39: every iteration of the polling loop reaches the candle fetch: the
\* handler is entered only from the fetch or from the call of the strategy
\* that follows it, never before.
C39_ReachesFetch ==
    [][ (loop' = "handler" /\ loop # "handler") =>
            loop \in {"fetch", "invoke"} ]_vars

\* --------------------------------------------------------- the claim C40

\* A status message, and a heartbeat message: one of the heartbeat channel
\* that is not the acknowledgement of a subscription.
Informational(m) ==
    \/ m.channel = "status"
    \/ m.channel = "heartbeat" /\ ~(m.method = "subscribe" /\ m.success)

\* C40: handling a status message or a heartbeat message changes neither
\* the candle buffer, nor is_subscribed, nor a strategy field, places no
\* order and ends no session.
C40_InformationalOnly ==
    [][ \A m \in MessagesLike(handled') :
            (Receive(m) /\ Informational(m)) =>
                /\ UNCHANGED <<candles, is_subscribed, strategyVars>>
                /\ UNCHANGED <<placed, evals, lastCall, ctx>>
                /\ UNCHANGED <<conn, lastEnd>> ]_vars

C40_Witness ==
    /\ handled.channel = "heartbeat"
    /\ handled.error
    /\ conn = "open"
    /\ is_subscribed
    /\ candles # <<>>

====
